---- MODULE Spec2Model ----
(***************************************************************************)
(* Model of the Sakila Text2SQL evaluator                                  *)
(* (03-Sakila-Text2SQL-评估体系.py, class SakilaText2SQLEvaluator).        *)
(*                                                                         *)
(* A Python str is a sequence of one-character strings (the SQL texts of   *)
(* the catalogue are kept as strings, see Text).  The SQLite               *)
(* database file behind db_path is abstracted to the set of actor_id       *)
(* values present in table actor (INTEGER PRIMARY KEY); the statements     *)
(* the model executes are the ones Text lists.                             *)
(***************************************************************************)
EXTENDS Integers, Sequences, FiniteSets, TLC

\* ------------------------------------------------------------------------
\* Bounds of the model
\* ------------------------------------------------------------------------
MaxNormLen == 4
MaxSimLen == 3
MaxId == 2
MaxCases == 2
MaxCorpus == 4
MaxCount == 5
MinCount == 2
MaxQuotaCorpus == 7

\* ------------------------------------------------------------------------
\* Python str helpers
\* ------------------------------------------------------------------------
UpperLetters == <<"A","B","C","D","E","F","G","H","I","J","K","L","M",
                  "N","O","P","Q","R","S","T","U","V","W","X","Y","Z">>

LowerLetters == <<"a","b","c","d","e","f","g","h","i","j","k","l","m",
                  "n","o","p","q","r","s","t","u","v","w","x","y","z">>

\* the characters str.strip() removes and the regex class \s matches (ASCII)
Whitespace == {" ", "\t", "\n", "\r", "\f"}

\* every character the model's strings are made of
Chars ==
    {UpperLetters[k] : k \in 1..26} \cup {LowerLetters[k] : k \in 1..26}
    \cup Whitespace
    \cup {"0", "1", "2", ";", "\"", "'", "(", ")", ",", "=", "_", "*"}

LowerChar ==
    [c \in Chars |->
        IF \E k \in 1..26 : UpperLetters[k] = c
        THEN LowerLetters[CHOOSE k \in 1..26 : UpperLetters[k] = c]
        ELSE c]

UpperChar ==
    [c \in Chars |->
        IF \E k \in 1..26 : LowerLetters[k] = c
        THEN UpperLetters[CHOOSE k \in 1..26 : LowerLetters[k] = c]
        ELSE c]

\* str.lower()
PyLower(s) == [k \in 1..Len(s) |-> LowerChar[s[k]]]

\* str.upper()
PyUpper(s) == [k \in 1..Len(s) |-> UpperChar[s[k]]]

\* index of the first character of s, from k on, that is not in chars
RECURSIVE FirstKept(_, _, _)
FirstKept(s, k, chars) ==
    IF k > Len(s) THEN k
    ELSE IF s[k] \notin chars THEN k
    ELSE FirstKept(s, k + 1, chars)

\* index of the last character of s, up to k, that is not in chars
RECURSIVE LastKept(_, _, _)
LastKept(s, k, chars) ==
    IF k < 1 THEN 0
    ELSE IF s[k] \notin chars THEN k
    ELSE LastKept(s, k - 1, chars)

\* str.strip(): leading and trailing whitespace removed
PyStrip(s) ==
    SubSeq(s, FirstKept(s, 1, Whitespace), LastKept(s, Len(s), Whitespace))

\* str.rstrip(chars): every trailing character of the set chars removed
PyRStrip(s, chars) == SubSeq(s, 1, LastKept(s, Len(s), chars))

\* str.startswith(prefix)
PyStartsWith(s, prefix) ==
    /\ Len(s) >= Len(prefix)
    /\ SubSeq(s, 1, Len(prefix)) = prefix

\* str.replace(old, new) for one-character old and new
PyReplaceChar(s, old, new) ==
    [k \in 1..Len(s) |-> IF s[k] = old THEN new ELSE s[k]]

\* re.sub(r'\s+', ' ', s): every maximal run of whitespace becomes one space
ReSubWhitespace(s) ==
    LET marked == [k \in 1..Len(s) |->
                     IF s[k] \notin Whitespace THEN s[k]
                     ELSE IF k > 1 /\ s[k - 1] \in Whitespace THEN ""
                     ELSE " "]
    IN  SelectSeq(marked, LAMBDA c : c # "")

\* ------------------------------------------------------------------------
\* normalize_sql
\* ------------------------------------------------------------------------
normalize_sql(sql) ==
    LET s1 == PyStrip(PyLower(sql))
        s2 == ReSubWhitespace(s1)
        s3 == PyRStrip(s2, {";"})
    IN  PyReplaceChar(s3, "\"", "'")

\* ------------------------------------------------------------------------
\* difflib.SequenceMatcher(None, a, b).ratio(), for len(b) < 200 (below the
\* length at which the autojunk heuristic starts discarding popular
\* characters).  Indices are Python's: 0-based, ranges half-open.
\* ------------------------------------------------------------------------
Max(S) == CHOOSE x \in S : \A y \in S : x >= y

\* j2len: length of the common run that ends at a[i], b[j] inside
\* a[alo:], b[blo:]
RECURSIVE RunLen(_, _, _, _, _, _)
RunLen(a, b, i, j, alo, blo) ==
    IF i < alo \/ j < blo THEN 0
    ELSE IF a[i + 1] # b[j + 1] THEN 0
    ELSE 1 + RunLen(a, b, i - 1, j - 1, alo, blo)

\* the scan replaces the best block only by a strictly longer one, so among
\* the longest blocks the one ending first in a, then first in b, is kept
find_longest_match(a, b, alo, ahi, blo, bhi) ==
    LET ends == {e \in (alo..(ahi - 1)) \X (blo..(bhi - 1)) :
                    a[e[1] + 1] = b[e[2] + 1]}
    IN  IF ends = {} THEN [i |-> alo, j |-> blo, k |-> 0]
        ELSE LET len   == [e \in ends |->
                              RunLen(a, b, e[1], e[2], alo, blo)]
                 best  == Max({len[e] : e \in ends})
                 cands == {e \in ends : len[e] = best}
                 first == CHOOSE e \in cands : \A f \in cands :
                              \/ e[1] < f[1]
                              \/ (e[1] = f[1] /\ e[2] <= f[2])
             IN  [i |-> first[1] - best + 1, j |-> first[2] - best + 1,
                  k |-> best]

\* sum of the sizes of get_matching_blocks(): the longest block, then the
\* same to its left and to its right
RECURSIVE MatchedChars(_, _, _, _, _, _)
MatchedChars(a, b, alo, ahi, blo, bhi) ==
    LET m == find_longest_match(a, b, alo, ahi, blo, bhi)
    IN  IF m.k = 0 THEN 0
        ELSE m.k
             + (IF alo < m.i /\ blo < m.j
                THEN MatchedChars(a, b, alo, m.i, blo, m.j) ELSE 0)
             + (IF m.i + m.k < ahi /\ m.j + m.k < bhi
                THEN MatchedChars(a, b, m.i + m.k, ahi, m.j + m.k, bhi)
                ELSE 0)

\* a float that is the quotient of two integers, kept as the quotient
Ratio(n, d) == [num |-> n, den |-> d]

\* a quotient with denominator 0 is the float nan, equal to nothing
IsNaN(x) == x.den = 0

RatEq(x, y) == x.den # 0 /\ y.den # 0 /\ x.num * y.den = y.num * x.den

RatAdd(x, y) == Ratio(x.num * y.den + y.num * x.den, x.den * y.den)

One == Ratio(1, 1)

Zero == Ratio(0, 1)

\* as SequenceRatio, without the case of two empty strings: 0 matches of 0
SequenceRatio_EmptyIsZero(a, b) ==
    IF Len(a) + Len(b) = 0 THEN Zero
    ELSE Ratio(2 * MatchedChars(a, b, 0, Len(a), 0, Len(b)), Len(a) + Len(b))

\* SequenceMatcher.ratio(): 2.0 * matches / length, 1.0 when length is 0
SequenceRatio(a, b) ==
    IF Len(a) + Len(b) = 0 THEN One
    ELSE Ratio(2 * MatchedChars(a, b, 0, Len(a), 0, Len(b)), Len(a) + Len(b))

\* ------------------------------------------------------------------------
\* sql_similarity, exact_match_score
\* ------------------------------------------------------------------------
sql_similarity(sql1, sql2) ==
    SequenceRatio(normalize_sql(sql1), normalize_sql(sql2))

exact_match_score(predicted_sql, reference_sql) ==
    IF normalize_sql(predicted_sql) = normalize_sql(reference_sql)
    THEN One ELSE Zero

\* ------------------------------------------------------------------------
\* SQL texts of the model: statements on the Sakila table actor
\* (actor_id INTEGER PRIMARY KEY, first_name, last_name, last_update).
\* The state holds a SQL text as a string; Text gives its characters.
\* ------------------------------------------------------------------------
SqlSelectOne == "SELECT 1"

SqlSelectOneLower == "select 1;"

SqlSelectIds == "SELECT actor_id FROM actor"

SqlInsert == "INSERT INTO actor VALUES(1,1,1,1)"

SqlUpdate == "UPDATE actor SET last_name=1"

SqlDelete == "DELETE FROM actor"

SqlSelectNoTable == "SELECT 1 FROM x"

SqlDropNoTable == "DROP TABLE x"

\* the empty string: what generate_sql returns when the completion call fails
SqlEmpty == ""

\* the characters of a SQL text
Text(sql) ==
    CASE sql = SqlSelectOne ->
            <<"S","E","L","E","C","T"," ","1">>
      [] sql = SqlSelectOneLower ->
            <<"s","e","l","e","c","t"," ","1",";">>
      [] sql = SqlSelectIds ->
            <<"S","E","L","E","C","T"," ","a","c","t","o","r","_","i","d",
              " ","F","R","O","M"," ","a","c","t","o","r">>
      [] sql = SqlInsert ->
            <<"I","N","S","E","R","T"," ","I","N","T","O"," ","a","c","t",
              "o","r"," ","V","A","L","U","E","S","(","1",",","1",",","1",
              ",","1",")">>
      [] sql = SqlUpdate ->
            <<"U","P","D","A","T","E"," ","a","c","t","o","r"," ","S","E",
              "T"," ","l","a","s","t","_","n","a","m","e","=","1">>
      [] sql = SqlDelete ->
            <<"D","E","L","E","T","E"," ","F","R","O","M"," ","a","c","t",
              "o","r">>
      [] sql = SqlSelectNoTable ->
            <<"S","E","L","E","C","T"," ","1"," ","F","R","O","M"," ","x">>
      [] sql = SqlDropNoTable ->
            <<"D","R","O","P"," ","T","A","B","L","E"," ","x">>
      [] sql = SqlEmpty -> <<>>

kwSELECT == <<"S","E","L","E","C","T">>

kwINSERT == <<"I","N","S","E","R","T">>

kwUPDATE == <<"U","P","D","A","T","E">>

kwDELETE == <<"D","E","L","E","T","E">>

\* the SQL texts of the model
SqlTexts ==
    {SqlSelectOne, SqlSelectOneLower, SqlSelectIds, SqlInsert, SqlUpdate,
     SqlDelete, SqlSelectNoTable, SqlDropNoTable, SqlEmpty}

\* sql.strip().upper().startswith(keyword), for every text and keyword
StartsWithKeyword ==
    [sql \in SqlTexts |->
        [keyword \in {kwSELECT, kwINSERT, kwUPDATE, kwDELETE} |->
            PyStartsWith(PyUpper(PyStrip(Text(sql))), keyword)]]

\* sql.strip().upper().startswith(keyword)
LeadingKeyword(sql, keyword) == StartsWithKeyword[sql][keyword]

\* ------------------------------------------------------------------------
\* Python list helpers
\* ------------------------------------------------------------------------
Min2(x, y) == IF x <= y THEN x ELSE y

Max2(x, y) == IF x >= y THEN x ELSE y

\* a slice bound as list slicing reads it: negative counts from the end,
\* and the result is clamped to 0..len
SliceIndex(x, len) == IF x < 0 THEN Max2(len + x, 0) ELSE Min2(x, len)

\* lst[start:stop]
PySlice(lst, start, stop) ==
    LET lo == SliceIndex(start, Len(lst))
        hi == SliceIndex(stop, Len(lst))
    IN  IF lo < hi THEN SubSeq(lst, lo + 1, hi) ELSE <<>>

\* [item for item in lst if item['sql'].strip().upper().startswith(keyword)]
Bucket(lst, keyword) ==
    SelectSeq(lst, LAMBDA item : LeadingKeyword(item.sql, keyword))

\* ------------------------------------------------------------------------
\* select_test_subset
\* ------------------------------------------------------------------------
\* as Backfill, nothing added to a selection that is short of n
Backfill_None(selected_data, select_queries, select_count, n) ==
    selected_data

\* as Backfill, the added cases taken from the start of the SELECT bucket
Backfill_FromStart(selected_data, select_queries, select_count, n) ==
    LET remaining == n - Len(selected_data)
    IN  IF remaining > 0
        THEN selected_data \o PySlice(select_queries, 0, remaining)
        ELSE selected_data

\* if remaining > 0: the selection extended by the next SELECT cases
Backfill(selected_data, select_queries, select_count, n) ==
    LET remaining == n - Len(selected_data)
    IN  IF remaining > 0
        THEN selected_data
             \o PySlice(select_queries, select_count,
                        select_count + remaining)
        ELSE selected_data

\* as QuotaSelection, the INSERT group put before the SELECT group
QuotaSelection_InsertsFirst(data, n) ==
    LET select_queries == Bucket(data, kwSELECT)
        insert_queries == Bucket(data, kwINSERT)
        update_queries == Bucket(data, kwUPDATE)
        delete_queries == Bucket(data, kwDELETE)
        select_count == Min2(n \div 2, Len(select_queries))
        insert_count == Min2(n \div 6, Len(insert_queries))
        update_count == Min2(n \div 6, Len(update_queries))
        delete_count == Min2(n - select_count - insert_count - update_count,
                             Len(delete_queries))
        selected_data == PySlice(insert_queries, 0, insert_count)
                         \o PySlice(select_queries, 0, select_count)
                         \o PySlice(update_queries, 0, update_count)
                         \o PySlice(delete_queries, 0, delete_count)
    IN  PySlice(Backfill(selected_data, select_queries, select_count, n),
                0, n)

\* the selection by quotas, made when count < len(self.test_data)
QuotaSelection(data, n) ==
    LET select_queries == Bucket(data, kwSELECT)
        insert_queries == Bucket(data, kwINSERT)
        update_queries == Bucket(data, kwUPDATE)
        delete_queries == Bucket(data, kwDELETE)
        select_count == Min2(n \div 2, Len(select_queries))
        insert_count == Min2(n \div 6, Len(insert_queries))
        update_count == Min2(n \div 6, Len(update_queries))
        delete_count == Min2(n - select_count - insert_count - update_count,
                             Len(delete_queries))
        selected_data == PySlice(select_queries, 0, select_count)
                         \o PySlice(insert_queries, 0, insert_count)
                         \o PySlice(update_queries, 0, update_count)
                         \o PySlice(delete_queries, 0, delete_count)
    IN  PySlice(Backfill(selected_data, select_queries, select_count, n),
                0, n)

\* as select_test_subset, the whole corpus returned only for
\* count > len(self.test_data)
select_test_subset_WholeIfLarger(data, n) ==
    IF n > Len(data) THEN data ELSE QuotaSelection(data, n)

select_test_subset(data, n) ==
    IF n >= Len(data) THEN data ELSE QuotaSelection(data, n)

\* ------------------------------------------------------------------------
\* SQLite: what cursor.execute(sql) does on a connection that sees the
\* contents d of table actor (the set of actor_id values present)
\* ------------------------------------------------------------------------
ActorIds == 1..MaxId

Databases == SUBSET ActorIds

\* SQLite reads keywords and names case-insensitively and ignores a
\* trailing ';'
Statement(sql) == PyUpper(PyRStrip(PyStrip(Text(sql)), {";"}))

StmtSelectOne == Statement(SqlSelectOne)

StmtSelectIds == Statement(SqlSelectIds)

StmtInsert == Statement(SqlInsert)

StmtUpdate == Statement(SqlUpdate)

StmtDelete == Statement(SqlDelete)

StmtSelectNoTable == Statement(SqlSelectNoTable)

StmtDropNoTable == Statement(SqlDropNoTable)

\* the rows of SELECT actor_id FROM actor: one tuple per row, in key order
KeyRows(d) ==
    [k \in 1..Cardinality(d) |->
        <<CHOOSE x \in d : Cardinality({y \in d : y < x}) = k - 1>>]

\* the statement ran: the cursor's rows and rowcount, the contents the
\* connection now sees
Executed(rows, rowcount, d) ==
    [err |-> "", rows |-> rows, rowcount |-> rowcount, db |-> d,
     wlock |-> FALSE]

\* the statement raised; wlock: it failed inside the transaction that the
\* sqlite3 module opens before INSERT, UPDATE and DELETE, holding the
\* write lock of the database file
SqlError(msg, d, holdsLock) ==
    [err |-> msg, rows |-> <<>>, rowcount |-> -1, db |-> d,
     wlock |-> holdsLock]

\* locked: another connection holds the write lock of the database file
SqliteExecute(d, sql, locked) ==
    LET stmt == Statement(sql)
    IN  CASE stmt = StmtSelectOne -> Executed(<< <<1>> >>, -1, d)
          [] stmt = StmtSelectIds -> Executed(KeyRows(d), -1, d)
          [] stmt = StmtSelectNoTable ->
                SqlError("no such table: x", d, FALSE)
          [] stmt = StmtDropNoTable ->
                SqlError("no such table: x", d, FALSE)
          [] stmt = Statement(SqlEmpty) -> Executed(<<>>, -1, d)
          [] stmt \in {StmtInsert, StmtUpdate, StmtDelete} /\ locked ->
                SqlError("database is locked", d, FALSE)
          [] stmt = StmtInsert /\ ~locked ->
                IF 1 \in d
                THEN SqlError("UNIQUE constraint failed: actor.actor_id",
                              d, TRUE)
                ELSE Executed(<<>>, 1, d \cup {1})
          [] stmt = StmtUpdate /\ ~locked ->
                Executed(<<>>, Cardinality(d), d)
          [] stmt = StmtDelete /\ ~locked ->
                Executed(<<>>, Cardinality(d), {})
          [] OTHER -> SqlError("syntax error", d, FALSE)

\* ------------------------------------------------------------------------
\* execute_sql: the pair it returns, and the database it leaves
\* ------------------------------------------------------------------------
SuccessRows(rows) ==
    [ok |-> TRUE, kind |-> "rows", rows |-> rows, rowcount |-> 0, msg |-> ""]

SuccessCount(n) ==
    [ok |-> TRUE, kind |-> "rowcount", rows |-> <<>>, rowcount |-> n,
     msg |-> ""]

Failure(msg) ==
    [ok |-> FALSE, kind |-> "error", rows |-> <<>>, rowcount |-> 0,
     msg |-> msg]

NoOutcome ==
    [ok |-> FALSE, kind |-> "none", rows |-> <<>>, rowcount |-> 0, msg |-> ""]

\* One whole invocation on the database file with contents d, the
\* connection to it opening: the statement runs or SQLite rejects it; a
\* SELECT is closed without commit, any other statement is committed.
\* In the except branch locals() stores the frame's variables, the exception
\* among them, in the frame the exception's traceback refers to: the cursor
\* and its statement stay alive until the cycle collector runs, and
\* conn.close() cannot release the write lock a failed statement holds
\* (wlock) before that.
ExecuteSql(d, sql, locked) ==
    LET r == SqliteExecute(d, sql, locked)
    IN  IF r.err # ""
        THEN [out |-> Failure(r.err), db |-> d, wlock |-> locked \/ r.wlock]
        ELSE IF LeadingKeyword(sql, kwSELECT)
        THEN [out |-> SuccessRows(r.rows), db |-> d, wlock |-> locked]
        ELSE [out |-> SuccessCount(r.rowcount), db |-> r.db,
              wlock |-> locked]

\* pred_result == ref_result: a list of rows never equals a row count
SameResult(p, r) ==
    /\ p.kind = r.kind
    /\ p.rows = r.rows
    /\ p.rowcount = r.rowcount

\* ------------------------------------------------------------------------
\* execution_accuracy: the value it returns for the two outcomes
\* ------------------------------------------------------------------------
\* as ExecAccuracyValue, with two failing statements counted as a disagreement
ExecAccuracyValue_FailuresDisagree(pred, ref) ==
    IF pred.ok /\ ref.ok
    THEN IF SameResult(pred, ref) THEN One ELSE Zero
    ELSE Zero

ExecAccuracyValue(pred, ref) ==
    IF pred.ok /\ ref.ok
    THEN IF SameResult(pred, ref) THEN One ELSE Zero
    ELSE IF ~pred.ok /\ ~ref.ok THEN One
    ELSE Zero

\* ------------------------------------------------------------------------
\* evaluate_single_query
\* ------------------------------------------------------------------------
CaseResult(q, ref, pred, em, sim, acc, chk) ==
    [question |-> q, reference_sql |-> ref, predicted_sql |-> pred,
     exact_match |-> em, similarity |-> sim, execution_accuracy |-> acc,
     is_executable |-> chk.ok, execution_result |-> chk]

\* the CaseResults that one call can return when it runs alone on the
\* database d, the generator returning pred; gc1, gc2: the cycle collector
\* ran before the second, the third execute_sql
EvalAlone(d, q, ref, pred) ==
    LET em  == exact_match_score(Text(pred), Text(ref))
        sim == sql_similarity(Text(pred), Text(ref))
    IN  { LET p == ExecuteSql(d, pred, FALSE)
              r == ExecuteSql(p.db, ref, p.wlock /\ ~gc1)
              c == ExecuteSql(r.db, pred, r.wlock /\ ~gc2)
          IN  CaseResult(q, ref, pred, em, sim,
                         ExecAccuracyValue(p.out, r.out), c.out) :
          gc1 \in BOOLEAN, gc2 \in BOOLEAN }

\* ------------------------------------------------------------------------
\* evaluate_dataset: np.mean
\* ------------------------------------------------------------------------
RECURSIVE SumRat(_)
SumRat(xs) ==
    IF xs = <<>> THEN Zero
    ELSE RatAdd(SumRat(SubSeq(xs, 1, Len(xs) - 1)), xs[Len(xs)])

\* as NpMean, the sum not divided by the number of values
NpMean_Sum(xs) == SumRat(xs)

\* sum / len: nan for the empty list
NpMean(xs) == LET t == SumRat(xs) IN Ratio(t.num, t.den * Len(xs))

BoolAsFloat(b) == IF b THEN One ELSE Zero

OverallResults(rs) ==
    [total_samples |-> Len(rs),
     exact_match_accuracy |->
        NpMean([k \in 1..Len(rs) |-> rs[k].exact_match]),
     average_similarity |->
        NpMean([k \in 1..Len(rs) |-> rs[k].similarity]),
     execution_accuracy |->
        NpMean([k \in 1..Len(rs) |-> rs[k].execution_accuracy]),
     execution_success_rate |->
        NpMean([k \in 1..Len(rs) |-> BoolAsFloat(rs[k].is_executable)]),
     detailed_results |-> rs]

\* ------------------------------------------------------------------------
\* State
\* ------------------------------------------------------------------------
VARIABLES
    nsql,       \* normalize_sql: the argument
    nres,       \* normalize_sql: the results of the calls made so far
    npc,        \* normalize_sql: number of calls made (0, 1, 2)
    sa, sb,     \* sql_similarity: the two SQL strings
    sim_ab,     \* sql_similarity(sa, sb)
    sim_ba,     \* sql_similarity(sb, sa)
    spc,        \* sql_similarity: number of calls made (0, 1, 2)
    test_data,  \* self.test_data: the corpus, a list of {question, sql}
    count,      \* select_test_subset: the argument count
    subset,     \* select_test_subset: the list returned
    sampc,      \* select_test_subset: "init", "returned" or "raised"
    db,         \* the database file at self.db_path: committed contents
    db0,        \* the contents of the database file when the run started
    wlock,      \* a connection that was closed in the except branch and is
                \* not yet deallocated holds the write lock of the file
    loc,        \* evaluate_single_query: the locals of each running call
    cases,      \* evaluate_dataset: the argument test_data
    idx,        \* evaluate_dataset: items of test_data evaluated so far
    results,    \* evaluate_dataset: the list results
    report,     \* evaluate_dataset: overall_results
    dpc,        \* evaluate_dataset: "idle", "loop", "returned" or "raised"
    xsql,       \* execute_sql: the argument sql
    xconn,      \* execute_sql: conn ("unbound", "open" or "closed")
    xview,      \* execute_sql: the contents of the database as conn sees
                \* them, uncommitted changes included
    xcur,       \* execute_sql: what cursor.execute left in the cursor
    xexc,       \* execute_sql: the exception raised inside try ("" if none)
    xret,       \* execute_sql: the value returned
    xpc         \* execute_sql: the statement to run next

normVars == <<nsql, nres, npc>>
simVars == <<sa, sb, sim_ab, sim_ba, spc>>
sampVars == <<test_data, count, subset, sampc>>
pipeVars == <<loc, cases, idx, results, report, dpc>>
execVars == <<xsql, xconn, xview, xcur, xexc, xret, xpc>>
dbVars == <<db, db0, wlock>>
vars == <<normVars, simVars, sampVars, pipeVars, execVars, dbVars>>

\* strings of length <= n over the alphabet A
StringsUpTo(A, n) == UNION {[1..k -> A] : k \in 0..n}

\* ------------------------------------------------------------------------
\* normalize_sql as a program: called, then called on its own result
\* ------------------------------------------------------------------------
NormAlphabet == {"A", "b", " ", "\t", ";", "\""}

NormIdle ==
    /\ nsql = <<>>
    /\ nres = <<>>
    /\ npc = 0

SimIdle ==
    /\ sa = <<>>
    /\ sb = <<>>
    /\ sim_ab = Zero
    /\ sim_ba = Zero
    /\ spc = 0

SampIdle ==
    /\ test_data = <<>>
    /\ count = 0
    /\ subset = <<>>
    /\ sampc = "init"

Threads == {1, 2}

\* the thread that runs evaluate_dataset
Main == 1

NoResult ==
    CaseResult(0, "", "", Zero, Zero, Zero, NoOutcome)

IdleLocals ==
    [pc |-> "idle", question |-> 0, reference_sql |-> "",
     predicted_sql |-> "", gen_failed |-> FALSE, exact_match |-> Zero,
     similarity |-> Zero, pred_out |-> NoOutcome, ref_out |-> NoOutcome,
     exec_accuracy |-> Zero, result |-> NoResult]

NoReport == OverallResults(<<>>)

PipeIdle ==
    /\ loc = [t \in Threads |-> IdleLocals]
    /\ cases = <<>>
    /\ idx = 0
    /\ results = <<>>
    /\ report = NoReport
    /\ dpc = "idle"

NoCursor == Executed(<<>>, -1, {})

ExecIdle ==
    /\ xsql = ""
    /\ xconn = "unbound"
    /\ xview = {}
    /\ xcur = NoCursor
    /\ xexc = ""
    /\ xret = NoOutcome
    /\ xpc = "idle"

DbIdle ==
    /\ db = {}
    /\ db0 = {}
    /\ wlock = FALSE

NormInit ==
    /\ nsql \in StringsUpTo(NormAlphabet, MaxNormLen)
    /\ nres = <<>>
    /\ npc = 0
    /\ SimIdle
    /\ SampIdle
    /\ PipeIdle
    /\ ExecIdle
    /\ DbIdle

\* normalize_sql(sql)
Normalize ==
    /\ npc = 0
    /\ nres' = <<normalize_sql(nsql)>>
    /\ npc' = 1
    /\ UNCHANGED <<nsql, simVars, sampVars, pipeVars, execVars, dbVars>>

\* normalize_sql applied to the result of the first call
NormalizeAgain ==
    /\ npc = 1
    /\ nres' = Append(nres, normalize_sql(nres[1]))
    /\ npc' = 2
    /\ UNCHANGED <<nsql, simVars, sampVars, pipeVars, execVars, dbVars>>

NextNorm == Normalize \/ NormalizeAgain

SpecNorm == NormInit /\ [][NextNorm]_vars

\* C2: normalize_sql is idempotent: normalizing a normalized string
\* returns it unchanged.
C2_NormalizeIdempotent == npc = 2 => nres[2] = nres[1]

\* ------------------------------------------------------------------------
\* sql_similarity as a program: called on (a, b), then on (b, a)
\* ------------------------------------------------------------------------
SimAlphabet == {"a", "B", "c", " "}

SimInit ==
    /\ sa \in StringsUpTo(SimAlphabet, MaxSimLen)
    /\ sb \in StringsUpTo(SimAlphabet, MaxSimLen)
    /\ sim_ab = Zero
    /\ sim_ba = Zero
    /\ spc = 0
    /\ NormIdle
    /\ SampIdle
    /\ PipeIdle
    /\ ExecIdle
    /\ DbIdle

\* sql_similarity(a, b)
Similarity ==
    /\ spc = 0
    /\ sim_ab' = sql_similarity(sa, sb)
    /\ spc' = 1
    /\ UNCHANGED <<sa, sb, sim_ba, normVars, sampVars,
                   pipeVars, execVars, dbVars>>

\* sql_similarity(b, a)
SimilaritySwapped ==
    /\ spc = 1
    /\ sim_ba' = sql_similarity(sb, sa)
    /\ spc' = 2
    /\ UNCHANGED <<sa, sb, sim_ab, normVars, sampVars,
                   pipeVars, execVars, dbVars>>

NextSim == Similarity \/ SimilaritySwapped

SpecSim == SimInit /\ [][NextSim]_vars

\* C3: sql_similarity is symmetric: the score of (a, b) equals the score
\* of (b, a).
C3_SimilaritySymmetric == spc = 2 => RatEq(sim_ab, sim_ba)

\* ------------------------------------------------------------------------
\* select_test_subset as a program: one call on a loaded corpus
\* ------------------------------------------------------------------------
\* one reference SQL per bucket, one lower-case, one of no bucket
SampleTexts ==
    {SqlSelectOne, SqlSelectOneLower, SqlInsert, SqlUpdate, SqlDelete,
     SqlDropNoTable}

\* the corpora of n records; the question of a record is its position
Corpora(n) ==
    {[k \in 1..n |-> [question |-> k, sql |-> f[k]]] :
        f \in [1..n -> SampleTexts]}

SampInit ==
    /\ test_data \in UNION {Corpora(n) : n \in 0..MaxCorpus}
    /\ count \in (0 - MinCount)..MaxCount
    /\ subset = <<>>
    /\ sampc = "init"
    /\ NormIdle
    /\ SimIdle
    /\ PipeIdle
    /\ ExecIdle
    /\ DbIdle

\* select_test_subset(count): no statement of it raises, it returns
SelectTestSubset ==
    /\ sampc = "init"
    /\ subset' = select_test_subset(test_data, count)
    /\ sampc' = "returned"
    /\ UNCHANGED <<test_data, count, normVars, simVars, pipeVars, execVars,
                   dbVars>>

NextSample == SelectTestSubset

SpecSample == SampInit /\ [][NextSample]_vars

\* C5: select_test_subset called with count <= 0 on a non-empty corpus
\* reports an error to its caller and returns no sample.
C5_NonPositiveCountRejected ==
    (sampc # "init" /\ count <= 0 /\ Len(test_data) > 0) => sampc = "raised"

\* ------------------------------------------------------------------------
\* evaluate_single_query, statement by statement, for the call of thread t
\* ------------------------------------------------------------------------
\* reference SQL of the cases
RefTexts ==
    {SqlSelectOne, SqlSelectIds, SqlInsert, SqlUpdate, SqlDelete,
     SqlSelectNoTable}

\* what the completion service may answer (after the clean-up of
\* generate_sql, which leaves these texts as they are)
PredTexts == RefTexts \cup {SqlSelectOneLower, SqlDropNoTable}

notPipe == <<normVars, simVars, sampVars, execVars>>

\* as GenerateSql, the exception of the completion call propagated to the
\* caller of evaluate_single_query
GenerateSql_Propagates(t) ==
    /\ loc[t].pc = "generate"
    /\ \/ \E sql \in PredTexts :
            loc' = [loc EXCEPT ![t].predicted_sql = sql, ![t].pc = "score"]
       \/ loc' = [loc EXCEPT ![t].gen_failed = TRUE, ![t].pc = "raised"]
    /\ UNCHANGED <<cases, idx, results, report, dpc, dbVars, notPipe>>

\* predicted_sql = self.generate_sql(question): the answer of the
\* completion service, or "" when the call raised
GenerateSql(t) ==
    /\ loc[t].pc = "generate"
    /\ \/ \E sql \in PredTexts :
            loc' = [loc EXCEPT ![t].predicted_sql = sql, ![t].pc = "score"]
       \/ loc' = [loc EXCEPT ![t].predicted_sql = SqlEmpty,
                             ![t].gen_failed = TRUE, ![t].pc = "score"]
    /\ UNCHANGED <<cases, idx, results, report, dpc, dbVars, notPipe>>

\* exact_match_score and sql_similarity of every predicted and reference SQL
Scores ==
    [predicted_sql \in SqlTexts |->
        [reference_sql \in SqlTexts |->
            <<exact_match_score(Text(predicted_sql), Text(reference_sql)),
              sql_similarity(Text(predicted_sql), Text(reference_sql))>>]]

\* exact_match_score and sql_similarity
Score(t) ==
    /\ loc[t].pc = "score"
    /\ loc' = [loc EXCEPT
                 ![t].exact_match =
                    Scores[loc[t].predicted_sql][loc[t].reference_sql][1],
                 ![t].similarity =
                    Scores[loc[t].predicted_sql][loc[t].reference_sql][2],
                 ![t].pc = "exec_pred"]
    /\ UNCHANGED <<cases, idx, results, report, dpc, dbVars, notPipe>>

\* execution_accuracy: pred_success, pred_result = execute_sql(predicted)
ExecPredicted(t) ==
    /\ loc[t].pc = "exec_pred"
    /\ LET r == ExecuteSql(db, loc[t].predicted_sql, wlock)
       IN  /\ db' = r.db
           /\ wlock' = r.wlock
           /\ loc' = [loc EXCEPT ![t].pred_out = r.out,
                                 ![t].pc = "exec_ref"]
    /\ UNCHANGED <<cases, idx, results, report, dpc, db0, notPipe>>

\* execution_accuracy: ref_success, ref_result = execute_sql(reference),
\* and the value returned
ExecReference(t) ==
    /\ loc[t].pc = "exec_ref"
    /\ LET r == ExecuteSql(db, loc[t].reference_sql, wlock)
       IN  /\ db' = r.db
           /\ wlock' = r.wlock
           /\ loc' = [loc EXCEPT
                        ![t].ref_out = r.out,
                        ![t].exec_accuracy =
                            ExecAccuracyValue(loc[t].pred_out, r.out),
                        ![t].pc = "check_exec"]
    /\ UNCHANGED <<cases, idx, results, report, dpc, db0, notPipe>>

\* is_executable, exec_result = execute_sql(predicted_sql), and the result
\* dictionary returned
CheckExecutable(t) ==
    /\ loc[t].pc = "check_exec"
    /\ LET r == ExecuteSql(db, loc[t].predicted_sql, wlock)
       IN  /\ db' = r.db
           /\ wlock' = r.wlock
           /\ loc' = [loc EXCEPT
                        ![t].result =
                            CaseResult(loc[t].question,
                                       loc[t].reference_sql,
                                       loc[t].predicted_sql,
                                       loc[t].exact_match,
                                       loc[t].similarity,
                                       loc[t].exec_accuracy, r.out),
                        ![t].pc = "done"]
    /\ UNCHANGED <<cases, idx, results, report, dpc, db0, notPipe>>

\* the cycle collector runs: the connections closed in the except branch
\* are deallocated, their transactions rolled back, the write lock released
CollectGarbage ==
    /\ wlock
    /\ wlock' = FALSE
    /\ UNCHANGED <<db, db0, pipeVars, notPipe>>

EvaluateSingleQuery(t) ==
    \/ GenerateSql(t)
    \/ Score(t)
    \/ ExecPredicted(t)
    \/ ExecReference(t)
    \/ CheckExecutable(t)

\* ------------------------------------------------------------------------
\* evaluate_dataset
\* ------------------------------------------------------------------------
\* the lists of n cases; the question of a case is its position
CaseLists(n) ==
    {[k \in 1..n |-> [question |-> k, sql |-> f[k]]] :
        f \in [1..n -> RefTexts]}

Init ==
    /\ db0 \in Databases
    /\ db = db0
    /\ wlock = FALSE
    /\ cases \in UNION {CaseLists(n) : n \in 0..MaxCases}
    /\ idx = 0
    /\ results = <<>>
    /\ report = NoReport
    /\ dpc = "loop"
    /\ loc = [t \in Threads |-> IdleLocals]
    /\ NormIdle
    /\ SimIdle
    /\ SampIdle
    /\ ExecIdle

\* for i, item in enumerate(test_data): the call of evaluate_single_query
CallEvaluate ==
    /\ dpc = "loop"
    /\ idx < Len(cases)
    /\ loc[Main].pc = "idle"
    /\ loc' = [loc EXCEPT ![Main] =
                 [IdleLocals EXCEPT !.pc = "generate",
                                    !.question = cases[idx + 1].question,
                                    !.reference_sql = cases[idx + 1].sql]]
    /\ UNCHANGED <<cases, idx, results, report, dpc, dbVars, notPipe>>

\* as CollectResult, the result put at the front of the list
CollectResult_Prepend ==
    /\ dpc = "loop"
    /\ loc[Main].pc = "done"
    /\ results' = <<loc[Main].result>> \o results
    /\ idx' = idx + 1
    /\ loc' = [loc EXCEPT ![Main] = IdleLocals]
    /\ UNCHANGED <<cases, report, dpc, dbVars, notPipe>>

\* results.append(result)
CollectResult ==
    /\ dpc = "loop"
    /\ loc[Main].pc = "done"
    /\ results' = Append(results, loc[Main].result)
    /\ idx' = idx + 1
    /\ loc' = [loc EXCEPT ![Main] = IdleLocals]
    /\ UNCHANGED <<cases, report, dpc, dbVars, notPipe>>

\* after the loop: the means, and overall_results returned
Aggregate ==
    /\ dpc = "loop"
    /\ idx = Len(cases)
    /\ loc[Main].pc = "idle"
    /\ report' = OverallResults(results)
    /\ dpc' = "returned"
    /\ UNCHANGED <<loc, cases, idx, results, dbVars, notPipe>>

Next ==
    \/ CallEvaluate
    \/ EvaluateSingleQuery(Main)
    \/ CollectResult
    \/ Aggregate
    \/ CollectGarbage

Spec == Init /\ [][Next]_vars

\* the four verdicts of two CaseResults agree
SameVerdicts(x, y) ==
    /\ RatEq(x.exact_match, y.exact_match)
    /\ RatEq(x.similarity, y.similarity)
    /\ RatEq(x.execution_accuracy, y.execution_accuracy)
    /\ x.is_executable = y.is_executable

\* C1: when the generator returns, for every case of a non-empty list, SQL
\* identical to the reference SQL, the four metrics of the report are 1.0.
C1_PerfectPredictionsScoreOne ==
    ( /\ dpc = "returned"
      /\ Len(results) > 0
      /\ \A k \in 1..Len(results) :
            results[k].predicted_sql = results[k].reference_sql )
    => /\ RatEq(report.exact_match_accuracy, One)
       /\ RatEq(report.average_similarity, One)
       /\ RatEq(report.execution_accuracy, One)
       /\ RatEq(report.execution_success_rate, One)

\* C4: evaluate_dataset called with an empty list raises a precondition
\* error; it does not return a report.
C4_EmptyDatasetRaises ==
    (cases = <<>> /\ dpc \in {"returned", "raised"}) => dpc = "raised"

\* C7: in every CaseResult, is_executable is true exactly when the
\* execution of predicted_sql that decided execution_accuracy succeeded.
C7_ExecutableIsPredictedOutcome ==
    \A t \in Threads :
        loc[t].pc = "done" =>
            (loc[t].result.is_executable <=> loc[t].pred_out.ok)

\* C8: no state is shared across calls: every CaseResult of the run is the
\* one its call returns when it is the first call made.
C8_NoStateSharedAcrossCalls ==
    dpc = "returned" =>
        \A k \in 1..Len(results) :
            \E alone \in EvalAlone(db0, results[k].question,
                                    results[k].reference_sql,
                                    results[k].predicted_sql) :
                SameVerdicts(results[k], alone)

\* ------------------------------------------------------------------------
\* execution_accuracy as a program: one call on two SQL strings
\* ------------------------------------------------------------------------
\* a connection that an earlier call closed in its except branch may still
\* hold the write lock: the one of a failed INSERT of the key 1
AccInit ==
    /\ db0 \in Databases
    /\ db = db0
    /\ wlock \in {b \in BOOLEAN : b => 1 \in db0}
    /\ \E pred \in PredTexts \cup {SqlEmpty}, ref \in PredTexts :
            loc = [t \in Threads |->
                     IF t = Main
                     THEN [IdleLocals EXCEPT !.pc = "exec_pred",
                                             !.predicted_sql = pred,
                                             !.reference_sql = ref]
                     ELSE IdleLocals]
    /\ cases = <<>>
    /\ idx = 0
    /\ results = <<>>
    /\ report = NoReport
    /\ dpc = "idle"
    /\ NormIdle
    /\ SimIdle
    /\ SampIdle
    /\ ExecIdle

NextAcc == ExecPredicted(Main) \/ ExecReference(Main) \/ CollectGarbage

SpecAcc == AccInit /\ [][NextAcc]_vars

\* C6: execution_accuracy is 1.0 exactly when both executions succeed with
\* equal payloads or both fail, whatever the error messages, and 0.0 in
\* every other case.
C6_ExecutionAccuracyByOutcomes ==
    LET l == loc[Main]
        p == l.pred_out
        r == l.ref_out
        agree == \/ /\ p.ok
                    /\ r.ok
                    /\ <<p.kind, p.rows, p.rowcount>>
                         = <<r.kind, r.rows, r.rowcount>>
                 \/ (~p.ok /\ ~r.ok)
    IN  l.pc = "check_exec" =>
            /\ agree => l.exec_accuracy = One
            /\ ~agree => l.exec_accuracy = Zero

\* both statements fail, with different messages, and the score is 1.0
C6_Witness ==
    /\ loc[Main].pc = "check_exec"
    /\ ~loc[Main].pred_out.ok
    /\ ~loc[Main].ref_out.ok
    /\ loc[Main].pred_out.msg # loc[Main].ref_out.msg
    /\ loc[Main].exec_accuracy = One

\* ------------------------------------------------------------------------
\* two calls of evaluate_single_query running concurrently on one
\* evaluator, interleaved between their execute_sql invocations
\* ------------------------------------------------------------------------
ConcRefTexts == {SqlSelectIds, SqlInsert, SqlDelete}

ConcInit ==
    /\ db0 \in Databases
    /\ db = db0
    /\ wlock = FALSE
    /\ \E f \in [Threads -> ConcRefTexts] :
            loc = [t \in Threads |->
                     [IdleLocals EXCEPT !.pc = "generate",
                                        !.question = t,
                                        !.reference_sql = f[t]]]
    /\ cases = <<>>
    /\ idx = 0
    /\ results = <<>>
    /\ report = NoReport
    /\ dpc = "idle"
    /\ NormIdle
    /\ SimIdle
    /\ SampIdle
    /\ ExecIdle

NextConc ==
    \/ \E t \in Threads : EvaluateSingleQuery(t)
    \/ CollectGarbage

SpecConc == ConcInit /\ [][NextConc]_vars

\* C9: under every interleaving, each of two concurrent calls returns the
\* CaseResult it returns when it runs alone from the same initial database.
C9_ConcurrentCallsDoNotInterfere ==
    \A t \in Threads :
        loc[t].pc = "done" =>
            \E alone \in EvalAlone(db0, loc[t].question,
                                    loc[t].reference_sql,
                                    loc[t].predicted_sql) :
                SameVerdicts(loc[t].result, alone)

\* ------------------------------------------------------------------------
\* execute_sql, statement by statement.  sqlite3 may raise at each of its
\* calls; besides the errors of the statement itself (SqliteExecute) the
\* environment may fail the connect, the fetch and the commit.
\* ------------------------------------------------------------------------
ExecTexts == PredTexts \cup {SqlEmpty}

notExec == <<normVars, simVars, sampVars, pipeVars>>

ExecInit ==
    /\ db0 \in Databases
    /\ db = db0
    /\ wlock \in {b \in BOOLEAN : b => 1 \in db0}
    /\ xsql \in ExecTexts
    /\ xconn = "unbound"
    /\ xview = {}
    /\ xcur = NoCursor
    /\ xexc = ""
    /\ xret = NoOutcome
    /\ xpc = "connect"
    /\ NormIdle
    /\ SimIdle
    /\ SampIdle
    /\ PipeIdle

\* conn = sqlite3.connect(self.db_path); cursor = conn.cursor()
Connect ==
    /\ xpc = "connect"
    /\ \/ /\ xconn' = "open"
          /\ xview' = db
          /\ xpc' = "execute"
          /\ xexc' = xexc
       \/ /\ xexc' = "unable to open database file"
          /\ xpc' = "except"
          /\ UNCHANGED <<xconn, xview>>
    /\ UNCHANGED <<xsql, xcur, xret, dbVars, notExec>>

\* cursor.execute(sql), in the branch the leading keyword selects
Execute ==
    /\ xpc = "execute"
    /\ LET r == SqliteExecute(xview, xsql, wlock)
       IN  /\ xcur' = r
           /\ IF r.err # ""
              THEN /\ xexc' = r.err
                   /\ xpc' = "except"
                   /\ xview' = xview
              ELSE /\ xexc' = xexc
                   /\ xview' = r.db
                   /\ xpc' = IF LeadingKeyword(xsql, kwSELECT)
                             THEN "fetch" ELSE "commit"
    /\ UNCHANGED <<xsql, xconn, xret, dbVars, notExec>>

\* results = cursor.fetchall(); conn.close(); return True, results
Fetch ==
    /\ xpc = "fetch"
    /\ \/ /\ xconn' = "closed"
          /\ xret' = SuccessRows(xcur.rows)
          /\ xpc' = "returned"
          /\ xexc' = xexc
       \/ /\ xexc' = "disk I/O error"
          /\ xpc' = "except"
          /\ UNCHANGED <<xconn, xret>>
    /\ UNCHANGED <<xsql, xview, xcur, dbVars, notExec>>

\* as Commit, the connection closed and the count returned without commit
Commit_Skipped ==
    /\ xpc = "commit"
    /\ \/ /\ xconn' = "closed"
          /\ xret' = SuccessCount(xcur.rowcount)
          /\ xpc' = "returned"
          /\ UNCHANGED <<db, xexc>>
       \/ /\ xexc' = "database is locked"
          /\ xpc' = "except"
          /\ UNCHANGED <<db, xconn, xret>>
    /\ UNCHANGED <<xsql, xview, xcur, db0, wlock, notExec>>

\* as Commit, a commit that raises after it has written the changes
Commit_FailsAfterWrite ==
    /\ xpc = "commit"
    /\ \/ /\ db' = xview
          /\ xconn' = "closed"
          /\ xret' = SuccessCount(xcur.rowcount)
          /\ xpc' = "returned"
          /\ xexc' = xexc
       \/ /\ db' = xview
          /\ xexc' = "database is locked"
          /\ xpc' = "except"
          /\ UNCHANGED <<xconn, xret>>
    /\ UNCHANGED <<xsql, xview, xcur, db0, wlock, notExec>>

\* affected_rows = cursor.rowcount; conn.commit(); conn.close();
\* return True, affected_rows
Commit ==
    /\ xpc = "commit"
    /\ \/ /\ db' = xview
          /\ xconn' = "closed"
          /\ xret' = SuccessCount(xcur.rowcount)
          /\ xpc' = "returned"
          /\ xexc' = xexc
       \/ /\ xexc' = "database is locked"
          /\ xpc' = "except"
          /\ UNCHANGED <<db, xconn, xret>>
    /\ UNCHANGED <<xsql, xview, xcur, db0, wlock, notExec>>

\* as ExceptHandler, the exception raised again instead of returned
ExceptHandler_Reraise ==
    /\ xpc = "except"
    /\ xconn' = IF xconn = "open" THEN "closed" ELSE xconn
    /\ xview' = db
    /\ wlock' = (wlock \/ xcur.wlock)
    /\ xpc' = "raised"
    /\ UNCHANGED <<xsql, xcur, xexc, xret, db, db0, notExec>>

\* except Exception as e: conn.close() if conn is bound;
\* return False, str(e).  The changes of the connection are not committed;
\* the write lock of a statement that failed inside its transaction stays
\* held (see ExecuteSql).
ExceptHandler ==
    /\ xpc = "except"
    /\ xconn' = IF xconn = "open" THEN "closed" ELSE xconn
    /\ xview' = db
    /\ wlock' = (wlock \/ xcur.wlock)
    /\ xret' = Failure(xexc)
    /\ xpc' = "returned"
    /\ UNCHANGED <<xsql, xcur, xexc, db, db0, notExec>>

NextExec ==
    \/ Connect
    \/ Execute
    \/ Fetch
    \/ Commit
    \/ ExceptHandler
    \/ CollectGarbage

SpecExec == ExecInit /\ [][NextExec]_vars

\* C10: execute_sql never propagates an error: an error raised while
\* connecting, executing, fetching or committing becomes the return value
\* (False, message), and a statement on a table that does not exist returns
\* (False, message).
C10_ErrorsBecomeFailure ==
    /\ xpc # "raised"
    /\ (xpc = "returned" /\ xexc # "") => xret = Failure(xexc)
    /\ (xpc = "returned" /\ xsql \in {SqlSelectNoTable, SqlDropNoTable})
            => (~xret.ok /\ xret.msg # "")

\* SELECT on the table x, which does not exist, has returned (False, message)
C10_Witness ==
    /\ xpc = "returned"
    /\ xsql = SqlSelectNoTable
    /\ xconn = "closed"
    /\ xret = Failure("no such table: x")

\* C11: when execute_sql has returned, the connection it opened is
\* released on every exit path: it is not open and no transaction of it
\* still holds the write lock of the database file.
C11_ConnectionReleasedOnReturn ==
    xpc = "returned" =>
        /\ xconn # "open"
        /\ ~(xcur.wlock /\ wlock)

\* ------------------------------------------------------------------------
\* evaluate_single_query as a program: one call, on any database, with or
\* without a lock left by an earlier call
\* ------------------------------------------------------------------------
CallInit ==
    /\ db0 \in Databases
    /\ db = db0
    /\ wlock \in {b \in BOOLEAN : b => 1 \in db0}
    /\ \E ref \in RefTexts :
            loc = [t \in Threads |->
                     IF t = Main
                     THEN [IdleLocals EXCEPT !.pc = "generate",
                                             !.question = 1,
                                             !.reference_sql = ref]
                     ELSE IdleLocals]
    /\ cases = <<>>
    /\ idx = 0
    /\ results = <<>>
    /\ report = NoReport
    /\ dpc = "idle"
    /\ NormIdle
    /\ SimIdle
    /\ SampIdle
    /\ ExecIdle

NextCall == EvaluateSingleQuery(Main) \/ CollectGarbage

SpecCall == CallInit /\ [][NextCall]_vars

\* a float in [0, 1]
IsScore(x) == x.den > 0 /\ 0 <= x.num /\ x.num <= x.den

\* C12: when the completion call fails, generate_sql returns "" and
\* evaluate_single_query does not raise: it returns a CaseResult with
\* predicted_sql = "" and every field populated.
C12_GenerationFailureGivesCaseResult ==
    LET l == loc[Main]
    IN  l.gen_failed =>
            /\ l.pc # "raised"
            /\ l.predicted_sql = SqlEmpty
            /\ l.pc = "done" =>
                /\ l.result.predicted_sql = ""
                /\ l.result.question = l.question
                /\ l.result.reference_sql = l.reference_sql
                /\ l.result.exact_match \in {Zero, One}
                /\ IsScore(l.result.similarity)
                /\ l.result.execution_accuracy \in {Zero, One}
                /\ l.result.is_executable \in BOOLEAN
                /\ l.result.execution_result.kind \in
                        {"rows", "rowcount", "error"}

\* the completion call failed and the call has returned its CaseResult
C12_Witness ==
    /\ loc[Main].gen_failed
    /\ loc[Main].pc = "done"
    /\ loc[Main].result.predicted_sql = ""
    /\ loc[Main].result.execution_result.kind # "none"

\* C13: when the completion call fails for a case, the CaseResult of the
\* case has is_executable = False.
C13_GenerationFailureNotExecutable ==
    (loc[Main].gen_failed /\ loc[Main].pc = "done")
        => ~loc[Main].result.is_executable

\* ------------------------------------------------------------------------
\* select_test_subset on corpora long enough for every quota to be positive
\* ------------------------------------------------------------------------
\* one reference SQL per bucket
QuotaTexts == {SqlSelectOneLower, SqlInsert, SqlUpdate, SqlDelete}

QuotaInit ==
    /\ \E n \in 0..MaxQuotaCorpus : \E f \in [1..n -> QuotaTexts] :
            test_data = [k \in 1..n |-> [question |-> k, sql |-> f[k]]]
    /\ count \in 1..(MaxQuotaCorpus - 1)
    /\ subset = <<>>
    /\ sampc = "init"
    /\ NormIdle
    /\ SimIdle
    /\ PipeIdle
    /\ ExecIdle
    /\ DbIdle

SpecQuota == QuotaInit /\ [][NextSample]_vars

\* the cases of data whose SQL is one of texts, in the order of data
CasesOf(data, texts) == SelectSeq(data, LAMBDA item : item.sql \in texts)

SelectCases(data) == CasesOf(data, {SqlSelectOne, SqlSelectOneLower})

InsertCases(data) == CasesOf(data, {SqlInsert})

UpdateCases(data) == CasesOf(data, {SqlUpdate})

DeleteCases(data) == CasesOf(data, {SqlDelete})

\* the quota of the DELETE bucket
DeleteQuota(n) == n - (n \div 2) - 2 * (n \div 6)

\* C14: for 0 < count < |corpus| and buckets that hold their quotas, the
\* call returns exactly count cases: the first count/2 SELECTs, the first
\* count/6 INSERTs, the first count/6 UPDATEs and the first
\* count - count/2 - 2*(count/6) DELETEs, in this order.
C14_QuotasFilledInOrder ==
    ( /\ sampc = "returned"
      /\ 0 < count
      /\ count < Len(test_data)
      /\ Len(SelectCases(test_data)) >= count \div 2
      /\ Len(InsertCases(test_data)) >= count \div 6
      /\ Len(UpdateCases(test_data)) >= count \div 6
      /\ Len(DeleteCases(test_data)) >= DeleteQuota(count) )
    => /\ Len(subset) = count
       /\ subset = SubSeq(SelectCases(test_data), 1, count \div 2)
                   \o SubSeq(InsertCases(test_data), 1, count \div 6)
                   \o SubSeq(UpdateCases(test_data), 1, count \div 6)
                   \o SubSeq(DeleteCases(test_data), 1, DeleteQuota(count))

\* count = 6 on a corpus that holds every quota: 3 + 1 + 1 + 1 returned
C14_Witness ==
    /\ sampc = "returned"
    /\ count = 6
    /\ Len(test_data) = 7
    /\ Len(SelectCases(test_data)) = 4
    /\ Len(subset) = 6
    /\ subset[4].sql = SqlInsert
    /\ subset[5].sql = SqlUpdate
    /\ subset[6].sql = SqlDelete

\* C15: for 0 < count < |corpus| a shortfall is backfilled from the SELECT
\* bucket only: the result holds at most count/6 INSERT cases, at most
\* count/6 UPDATE cases and at most count - count/2 - 2*(count/6) DELETE
\* cases.
C15_BackfillFromSelectOnly ==
    (sampc = "returned" /\ 0 < count /\ count < Len(test_data))
    => /\ Len(InsertCases(subset)) <= count \div 6
       /\ Len(UpdateCases(subset)) <= count \div 6
       /\ Len(DeleteCases(subset)) <= DeleteQuota(count)

\* C16: for 0 < count < |corpus|, when the result has fewer than count
\* cases, every SELECT case of the corpus is in the result.
C16_ShortOnlyWhenSelectsExhausted ==
    ( /\ sampc = "returned"
      /\ 0 < count
      /\ count < Len(test_data)
      /\ Len(subset) < count )
    => \A k \in 1..Len(test_data) :
            test_data[k].sql \in {SqlSelectOne, SqlSelectOneLower}
                => \E j \in 1..Len(subset) : subset[j] = test_data[k]

\* a result short of count although SELECT cases were added beyond the quota
C16_Witness ==
    /\ sampc = "returned"
    /\ 0 < count
    /\ count < Len(test_data)
    /\ Len(subset) < count
    /\ Len(SelectCases(test_data)) > count \div 2
    /\ Len(SelectCases(subset)) = Len(SelectCases(test_data))

\* C17: with count >= |corpus| the whole corpus is returned, unchanged and
\* in the same order, cases of no bucket included.
C17_WholeCorpusWhenCountCovers ==
    (sampc = "returned" /\ count >= Len(test_data)) => subset = test_data

\* count = |corpus| on a corpus that holds a case of no bucket
C17_Witness ==
    /\ sampc = "returned"
    /\ count = Len(test_data)
    /\ Len(test_data) > 1
    /\ test_data[1].sql = SqlDropNoTable
    /\ subset = test_data

\* C18: normalize_sql(s) is the documented transform of s, in this order:
\* lowercase, collapse every whitespace run to one space, trim, strip a
\* single trailing ';' (at most one is removed), replace every double quote
\* by a single quote.
C18_NormalizeIsReferenceTransform ==
    LET StripOneSemicolon(s) ==
            IF Len(s) > 0 /\ s[Len(s)] = ";"
            THEN SubSeq(s, 1, Len(s) - 1) ELSE s
        Reference(s) ==
            PyReplaceChar(
                StripOneSemicolon(PyStrip(ReSubWhitespace(PyLower(s)))),
                "\"", "'")
    IN  npc >= 1 => nres[1] = Reference(nsql)

\* C19: sql_similarity(a, b) is 1.0 exactly when normalize_sql(a) equals
\* normalize_sql(b), which is exactly when exact_match_score(a, b) is 1.0.
C19_SimilarityOneIffSameNormalForm ==
    spc >= 1 =>
        /\ RatEq(sim_ab, One) <=> (normalize_sql(sa) = normalize_sql(sb))
        /\ RatEq(sim_ab, One) <=> (exact_match_score(sa, sb) = One)

\* two different strings of one normal form, scored 1.0
C19_Witness ==
    /\ spc >= 1
    /\ sa # sb
    /\ Len(sa) > 1
    /\ normalize_sql(sa) = normalize_sql(sb)
    /\ sim_ab = One

\* ------------------------------------------------------------------------
\* evaluate_dataset on lists of cases of two reference SQL
\* ------------------------------------------------------------------------
LoopRefTexts == {SqlSelectIds, SqlInsert}

LoopInit ==
    /\ db0 \in Databases
    /\ db = db0
    /\ wlock = FALSE
    /\ \E n \in 0..MaxCases : \E f \in [1..n -> LoopRefTexts] :
            cases = [k \in 1..n |-> [question |-> k, sql |-> f[k]]]
    /\ idx = 0
    /\ results = <<>>
    /\ report = NoReport
    /\ dpc = "loop"
    /\ loc = [t \in Threads |-> IdleLocals]
    /\ NormIdle
    /\ SimIdle
    /\ SampIdle
    /\ ExecIdle

SpecLoop == LoopInit /\ [][Next]_vars

\* C20: evaluate_dataset evaluates every case once, in input order: the
\* results collected so far are those of the first cases, in their order,
\* and on return total_samples is the number of cases and
\* detailed_results[i] is the CaseResult of case i.
C20_EveryCaseOnceInOrder ==
    /\ Len(results) = idx
    /\ idx <= Len(cases)
    /\ \A i \in 1..Len(results) :
            /\ results[i].question = cases[i].question
            /\ results[i].reference_sql = cases[i].sql
    /\ loc[Main].pc # "idle" =>
            /\ idx < Len(cases)
            /\ loc[Main].question = cases[idx + 1].question
            /\ loc[Main].reference_sql = cases[idx + 1].sql
    /\ dpc = "returned" =>
            /\ report.total_samples = Len(cases)
            /\ report.detailed_results = results
            /\ Len(results) = Len(cases)

\* a list of two cases of different reference SQL has been evaluated
C20_Witness ==
    /\ dpc = "returned"
    /\ Len(cases) = 2
    /\ cases[1].sql # cases[2].sql
    /\ report.total_samples = 2
    /\ report.detailed_results[2].reference_sql = cases[2].sql

\* C21: for a non-empty list of cases every metric of the report is the
\* arithmetic mean of the field of the CaseResults (is_executable counted as
\* 0 or 1), and every metric of the CaseResults and of the report lies in
\* [0, 1].
C21_MetricsAreMeansInUnitInterval ==
    LET n == Len(results)
        \* m is the mean of xs: n * m = xs[1] + ... + xs[n]
        IsMeanOf(m, xs) ==
            LET total[k \in 0..n] ==
                    IF k = 0 THEN Zero ELSE RatAdd(total[k - 1], xs[k])
            IN  RatEq(Ratio(m.num * n, m.den), total[n])
        rep == report
        rs == rep.detailed_results
    IN  /\ \A k \in 1..n :
                /\ IsScore(results[k].exact_match)
                /\ IsScore(results[k].similarity)
                /\ IsScore(results[k].execution_accuracy)
        /\ (dpc = "returned" /\ Len(cases) > 0) =>
                /\ IsMeanOf(rep.exact_match_accuracy,
                            [k \in 1..n |-> rs[k].exact_match])
                /\ IsMeanOf(rep.average_similarity,
                            [k \in 1..n |-> rs[k].similarity])
                /\ IsMeanOf(rep.execution_accuracy,
                            [k \in 1..n |-> rs[k].execution_accuracy])
                /\ IsMeanOf(rep.execution_success_rate,
                            [k \in 1..n |->
                                IF rs[k].is_executable THEN One ELSE Zero])
                /\ IsScore(rep.exact_match_accuracy)
                /\ IsScore(rep.average_similarity)
                /\ IsScore(rep.execution_accuracy)
                /\ IsScore(rep.execution_success_rate)

\* a report for two cases of different similarity and different
\* executability: its means are strictly between the values of the cases
C21_Witness ==
    /\ dpc = "returned"
    /\ Len(results) = 2
    /\ ~RatEq(results[1].similarity, results[2].similarity)
    /\ ~RatEq(report.average_similarity, results[1].similarity)
    /\ results[1].is_executable # results[2].is_executable
    /\ RatEq(report.execution_success_rate, Ratio(1, 2))

\* ------------------------------------------------------------------------
\* evaluate_single_query as one step: the CaseResults that a call can
\* return on the database d (locked: an earlier call left the write lock
\* held), with the database and the lock it leaves; gc1, gc2: the cycle
\* collector ran before the second, the third execute_sql
\* ------------------------------------------------------------------------
EvalFrom(d, locked, q, ref, pred) ==
    { LET p == ExecuteSql(d, pred, locked)
          r == ExecuteSql(p.db, ref, p.wlock /\ ~gc1)
          c == ExecuteSql(r.db, pred, r.wlock /\ ~gc2)
      IN  [result |-> CaseResult(q, ref, pred, Scores[pred][ref][1],
                                 Scores[pred][ref][2],
                                 ExecAccuracyValue(p.out, r.out), c.out),
           db |-> c.db,
           wlock |-> c.wlock] :
      gc1 \in BOOLEAN, gc2 \in BOOLEAN }

\* C22: the four metrics of the report do not depend on the order of the
\* cases: the run on two cases returns the metrics that a run on the same
\* two cases in the other order, with the same predicted SQL and from the
\* same initial database, returns.
C22_MetricsOrderIndependent ==
    (dpc = "returned" /\ Len(results) = 2) =>
        \E first \in EvalFrom(db0, FALSE, results[2].question,
                              results[2].reference_sql,
                              results[2].predicted_sql) :
        \E gc \in BOOLEAN :
        \E second \in EvalFrom(first.db, first.wlock /\ ~gc,
                               results[1].question,
                               results[1].reference_sql,
                               results[1].predicted_sql) :
            LET other == OverallResults(<<first.result, second.result>>)
            IN  /\ RatEq(report.exact_match_accuracy,
                         other.exact_match_accuracy)
                /\ RatEq(report.average_similarity, other.average_similarity)
                /\ RatEq(report.execution_accuracy, other.execution_accuracy)
                /\ RatEq(report.execution_success_rate,
                         other.execution_success_rate)

\* C23: execute_sql runs a statement as a read exactly when its trimmed,
\* case-insensitive leading token is SELECT.  A read that runs without error
\* returns (True, all the rows, in order) and commits nothing; any other
\* statement that runs without error is committed and returns
\* (True, the count of affected rows); 'SELECT 1' returns (True, [(1,)]).
C23_ReadsReturnRowsWritesCommit ==
    LET reads == {SqlSelectOne, SqlSelectOneLower, SqlSelectIds,
                  SqlSelectNoTable}
        rows == xret.rows
    IN  (xpc = "returned" /\ xret.ok) =>
            /\ xsql \in reads =>
                /\ xret.kind = "rows"
                /\ db = db0
                /\ xsql \in {SqlSelectOne, SqlSelectOneLower}
                        => rows = << <<1>> >>
                /\ xsql = SqlSelectIds =>
                        /\ {rows[k][1] : k \in 1..Len(rows)} = db0
                        /\ \A j, k \in 1..Len(rows) :
                                j < k => rows[j][1] < rows[k][1]
            /\ xsql \notin reads =>
                /\ xret.kind = "rowcount"
                /\ xret.rowcount \in Int
                /\ xsql = SqlInsert =>
                        xret.rowcount = 1 /\ db = db0 \cup {1}
                /\ xsql = SqlUpdate =>
                        xret.rowcount = Cardinality(db0) /\ db = db0
                /\ xsql = SqlDelete =>
                        xret.rowcount = Cardinality(db0) /\ db = {}
                /\ xsql = SqlEmpty => db = db0

\* an INSERT has run without error: one row affected, and committed
C23_Witness ==
    /\ xpc = "returned"
    /\ xsql = SqlInsert
    /\ xret = SuccessCount(1)
    /\ 1 \notin db0
    /\ db = db0 \cup {1}

\* C24: the committed contents of the database change only through a call
\* that returns success for a statement that is not a SELECT: a call that
\* returns failure, and a call on a SELECT, leave the contents as they were.
C24_OnlySuccessfulWritesChangeDatabase ==
    db # db0 =>
        /\ xpc = "returned"
        /\ xret.ok
        /\ xsql \notin {SqlSelectOne, SqlSelectOneLower, SqlSelectIds,
                        SqlSelectNoTable}

\* an INSERT whose commit failed has returned failure: the row the
\* connection had inserted is not in the database
C24_Witness ==
    /\ xpc = "returned"
    /\ xsql = SqlInsert
    /\ xcur.err = ""
    /\ xcur.db # db0
    /\ ~xret.ok
    /\ db = db0

\* C25: for every corpus and every count with 0 <= count < |corpus|, the
\* sequence select_test_subset returns has at most count items, every item
\* is a record of the corpus whose reference SQL starts with SELECT, INSERT,
\* UPDATE or DELETE, and no position of the corpus is in it twice; the corpus
\* is left as it was.
C25_SubsetOfBucketedCasesWithoutRepeats ==
    /\ []( ( /\ sampc = "returned"
             /\ 0 <= count
             /\ count < Len(test_data) )
           => /\ Len(subset) <= count
              /\ \A j \in 1..Len(subset) :
                    \E k \in 1..Len(test_data) :
                        /\ subset[j] = test_data[k]
                        /\ test_data[k].question = k
                        /\ test_data[k].sql \in
                               {SqlSelectOne, SqlSelectOneLower, SqlInsert,
                                SqlUpdate, SqlDelete}
              /\ \A i, j \in 1..Len(subset) :
                    i # j => subset[i].question # subset[j].question )
    /\ [][test_data' = test_data]_vars

\* a full result with SELECT cases added beyond the quota, from a corpus
\* that holds a case of no bucket
C25_Witness ==
    /\ sampc = "returned"
    /\ 0 < count
    /\ count < Len(test_data)
    /\ Len(subset) = count
    /\ Len(SelectCases(subset)) > count \div 2
    /\ \E k \in 1..Len(test_data) : test_data[k].sql = SqlDropNoTable

====
